---------------------------- MODULE Spec2Model ----------------------------
(***************************************************************************)
(* A model of the content generator's job pipeline.                        *)
(*                                                                         *)
(* Two programs live in the repository:                                    *)
(*   - the server (src/server.ts): the in-memory job store, the SSE        *)
(*     progress clients, processFile, the automation loop and the manual   *)
(*     trigger POST /api/generate;                                         *)
(*   - the batch tool (src/unnamed/part_000): the key rotation, the retry  *)
(*     loop generateWithRetry, processFile, runQueue and the batch report. *)
(*                                                                         *)
(* Both run on a single-threaded event loop: code runs without             *)
(* interleaving from one await to the next.  The variable running names    *)
(* the task that holds the event loop; a task gives it up at an await and  *)
(* the awaited call's return hands it back.                                *)
(***************************************************************************)
EXTENDS Naturals, Sequences, FiniteSets, TLC

VARIABLES
    program,    \* which of the two programs this process is
    jobs,       \* server: const jobs = new Map<string, Job>(), in insertion order
    trail,      \* server: per Job, the values it has had: at its creation, then after each updateJob
    clients,    \* server: const clients = new Map<string, Response>(), fileId -> connection
    conns,      \* server: the SSE connections (responses) ever opened, with what was
                \* written to each and the number of Jobs there were when it opened
    proc,       \* server: the activation of processFile that owns each job
    reqs,       \* server: the POST /api/generate requests received
    cycles,     \* server: the runAutomation activations started by the timers
    store,      \* the external record store: status of each file
    running,    \* the task that holds the event loop
    envKey,     \* server: process.env.GEMINI_API_KEY
    autoKeys,   \* server: AUTO_CONFIG.geminiApiKeys
    ui,         \* the page in the browser: isGenerating, stopGenerationRef, files
                \* and the activations of startGeneration
    apiKeys,    \* batch tool: const apiKeys
    keyIndex,   \* batch tool: let keyIndex
    keyLog,     \* batch tool: the keys getNextGemini handed out last
    batch,      \* batch tool: the files runQueue was called with
    index,      \* batch tool: runQueue's let index
    results,    \* batch tool: runQueue's const results
    workers,    \* batch tool: runQueue's workers
    itemLog,    \* batch tool: per file of the batch, what was done for it
    report,     \* batch tool: the success and failed lists run reports
    mainPc,     \* batch tool: where run() is
    concurrencyLimit  \* batch tool: the concurrency bound it is configured with

batchVars == <<apiKeys, keyIndex, keyLog, batch, index, results, workers, itemLog,
               report, mainPc, concurrencyLimit>>

serverVars == <<jobs, trail, clients, conns, proc, reqs, cycles, running, envKey, autoKeys,
                ui>>

vars == <<program, store, serverVars, batchVars>>

---------------------------------------------------------------------------
(* Bounds of the model *)

\* number of files the external store holds
NumFiles == 2
\* number of Jobs created in one run of the server
MaxJobs == 2
\* number of manual triggers received
MaxManual == 2
\* number of automation cycles started
MaxCycles == 2
\* number of SSE connections opened
MaxConns == 2
\* number of Jobs created while SSE clients come and go
MaxSseJobs == 1

FileIds == 1..NumFiles
\* a request body without fileId, fileUrl or cloudinaryConfig
NoFile == 0

---------------------------------------------------------------------------
(* Messages.  A template string `prefix${cause}` is the pair of its parts, *)
(* so that it is empty only when both parts are.                           *)

Concat(prefix, cause) == <<prefix, cause>>
Msg(text) == Concat(text, "")
EmptyMsg == Msg("")
\* the value of a field that was never assigned
Undefined == <<>>
\* the prefixes of the errors processFile throws (server.ts 209, 227, 249)
FetchFailed == "Failed to fetch prompt file: "
GenerationFailed == "Gemini generation failed: "
PersistFailed == "Cloudinary upload failed: "
\* error.message of what axios, the Gemini SDK or Cloudinary throw
Causes == {"ETIMEDOUT"}

---------------------------------------------------------------------------
(* getGemini, server.ts 39-56 *)

\* k.includes('YOUR_API_KEY')
IncludesYourApiKey(k) == k \in {"YOUR_API_KEY", "xx-YOUR_API_KEY-xx"}

ValidKeys(providedKeys) ==
    SelectSeq(providedKeys,
              LAMBDA k : k # "" /\ ~IncludesYourApiKey(k) /\ k # "MY_GEMINI_API_KEY")

\* The error getGemini throws, or Undefined when it returns a client.  The
\* client is built from a random valid key; nothing modelled reads the key.
GetGemini(providedKeys, apiKey) ==
    IF Len(providedKeys) > 0 /\ Len(ValidKeys(providedKeys)) > 0 THEN Undefined
    ELSE IF apiKey = ""
         THEN Msg("GEMINI_API_KEY is not defined in environment variables and no valid keys were provided in the request.")
    ELSE IF apiKey = "MY_GEMINI_API_KEY" \/ IncludesYourApiKey(apiKey)
         THEN Msg("Invalid GEMINI_API_KEY detected. Please configure your API key.")
    ELSE Undefined

---------------------------------------------------------------------------
(* updateJob, server.ts 59-78 *)

Idle == <<"idle", 0>>

\* A faulty variant of AssignJob: only a completion is stamped.
AssignJobStampsCompleted(job, updates) ==
    LET assigned == [k \in DOMAIN job |->
                        IF k \in DOMAIN updates THEN updates[k] ELSE job[k]]
    IN  IF "status" \in DOMAIN updates /\ updates.status = "completed"
        THEN [assigned EXCEPT !.endTime = 1]
        ELSE assigned

\* Object.assign(job, updates), then the end timestamp (Date.now(), here 1)
AssignJob(job, updates) ==
    LET assigned == [k \in DOMAIN job |->
                        IF k \in DOMAIN updates THEN updates[k] ELSE job[k]]
    IN  IF "status" \in DOMAIN updates /\ updates.status \in {"completed", "failed"}
        THEN [assigned EXCEPT !.endTime = 1]
        ELSE assigned

\* the SSE frame updateJob writes
ProgressEvent(job) ==
    [step |-> job.status, progress |-> job.progress,
     message |-> job.message, jobId |-> job.id]

JobsAfterUpdate(jobId, updates) ==
    IF jobId \notin DOMAIN jobs THEN jobs
    ELSE [jobs EXCEPT ![jobId] = AssignJob(jobs[jobId], updates)]

\* A faulty variant of ConnsAfterUpdate: the frame is written before the
\* updates are assigned.
ConnsAfterUpdateStale(jobId, updates) ==
    IF jobId \notin DOMAIN jobs THEN conns
    ELSE LET job == jobs[jobId]
             client == clients[job.fileId]
         IN  IF client # 0
             THEN [conns EXCEPT ![client].sent = Append(@, ProgressEvent(job))]
             ELSE conns

\* A faulty variant of ConnsAfterUpdate: the frame is written to every
\* connection that was opened for the Job's fileId.
ConnsAfterUpdateBroadcast(jobId, updates) ==
    IF jobId \notin DOMAIN jobs THEN conns
    ELSE LET job == AssignJob(jobs[jobId], updates)
         IN  [c \in DOMAIN conns |->
                 IF conns[c].fileId = job.fileId
                 THEN [conns[c] EXCEPT !.sent = Append(@, ProgressEvent(job))]
                 ELSE conns[c]]

\* lines 68-77: the frame is written to the client registered for the fileId
ConnsAfterUpdate(jobId, updates) ==
    IF jobId \notin DOMAIN jobs THEN conns
    ELSE LET job == AssignJob(jobs[jobId], updates)
             client == clients[job.fileId]
         IN  IF client # 0
             THEN [conns EXCEPT ![client].sent = Append(@, ProgressEvent(job))]
             ELSE conns

updateJob(jobId, updates) ==
    /\ jobs' = JobsAfterUpdate(jobId, updates)
    /\ conns' = ConnsAfterUpdate(jobId, updates)
    /\ trail' = IF jobId \notin DOMAIN jobs THEN trail
                ELSE [trail EXCEPT ![jobId] = Append(@, JobsAfterUpdate(jobId, updates)[jobId])]

---------------------------------------------------------------------------
(* GET /api/progress/:fileId, server.ts 143-168 *)

\* Array.from(jobs.values()).find(j => j.fileId === fileId && j.status === 'processing')
ExistingJob(fileId) ==
    LET found == {j \in DOMAIN jobs :
                     jobs[j].fileId = fileId /\ jobs[j].status = "processing"}
    IN  IF found = {} THEN 0 ELSE CHOOSE j \in found : \A k \in found : j <= k

InitEvent == [step |-> "init", progress |-> 0, message |-> Msg("Connected"), jobId |-> 0]

SubscribeBody(fileId) ==
    /\ program = "server"
    /\ running = Idle
    /\ Len(conns) < MaxConns
    /\ LET existing == ExistingJob(fileId)
           first == <<InitEvent>>
           written == IF existing # 0
                      THEN Append(first, [step |-> jobs[existing].status,
                                          progress |-> jobs[existing].progress,
                                          message |-> jobs[existing].message,
                                          jobId |-> 0])
                      ELSE first
       IN  conns' = Append(conns, [fileId |-> fileId, open |-> TRUE, sent |-> written,
                                   since |-> Len(jobs)])
    /\ clients' = [clients EXCEPT ![fileId] = Len(conns) + 1]
    /\ UNCHANGED <<batchVars, program, jobs, trail, proc, reqs, cycles, store, running, envKey, autoKeys>>

Subscribe(fileId) == SubscribeBody(fileId) /\ UNCHANGED ui

\* req.on('close'): deletes whatever is registered for the connection's fileId
CloseConnBody(c) ==
    /\ program = "server"
    /\ running = Idle
    /\ c \in DOMAIN conns
    /\ conns[c].open
    /\ conns' = [conns EXCEPT ![c].open = FALSE]
    /\ clients' = [clients EXCEPT ![conns[c].fileId] = 0]
    /\ UNCHANGED <<batchVars, program, jobs, trail, proc, reqs, cycles, store, running, envKey, autoKeys>>

CloseConn(c) == CloseConnBody(c) /\ UNCHANGED ui

---------------------------------------------------------------------------
(* processFile, server.ts 183-289 *)

NewJob(fileId) ==
    [id |-> Len(jobs) + 1, fileId |-> fileId, status |-> "pending", progress |-> 0,
     message |-> Msg("Job created"), result |-> Undefined, error |-> Undefined,
     endTime |-> 0]

\* lines 184-193: the job is created and stored; the caller's task goes on
\* inside processFile
ProcessFileEnter(fileId, caller, config) ==
    /\ Len(jobs) < MaxJobs
    /\ jobs' = Append(jobs, NewJob(fileId))
    /\ trail' = Append(trail, <<NewJob(fileId)>>)
    /\ proc' = Append(proc, [pc |-> "created", caller |-> caller, keys |-> config,
                             err |-> Undefined, url |-> Undefined, puts |-> 0,
                             gens |-> 0, threw |-> "none"])
    /\ running' = <<"job", Len(jobs) + 1>>

\* A faulty variant of ProcessingUpdate: the status is left out.
ProcessingUpdateNoStatus ==
    [progress |-> 5, message |-> Msg("Starting processing...")]

\* line 195: the updates of the first updateJob
ProcessingUpdate ==
    [status |-> "processing", progress |-> 5, message |-> Msg("Starting processing...")]

\* line 195
StartProcessing(j) ==
    /\ running = <<"job", j>>
    /\ proc[j].pc = "created"
    /\ updateJob(j, ProcessingUpdate)
    /\ proc' = [proc EXCEPT ![j].pc = "try"]
    /\ UNCHANGED <<ui, batchVars, program, clients, reqs, cycles, store, running, envKey, autoKeys>>

\* lines 199-204: progress 10, then await axios.get(fileUrl)
FetchPrompt(j) ==
    /\ running = <<"job", j>>
    /\ proc[j].pc = "try"
    /\ updateJob(j, [progress |-> 10, message |-> Msg("Fetching prompt from source...")])
    /\ proc' = [proc EXCEPT ![j].pc = "fetching"]
    /\ running' = Idle
    /\ UNCHANGED <<ui, batchVars, program, clients, reqs, cycles, store, envKey, autoKeys>>

\* A faulty variant of FetchThrew: the error is swallowed and the pipeline
\* goes on with an empty prompt.
FetchThrewSwallowed(frame, cause) ==
    [frame EXCEPT !.pc = "fetched", !.threw = "fetch"]

\* lines 208-210: the catch of the fetch throws the FetchFailed error
FetchThrew(frame, cause) ==
    [frame EXCEPT !.pc = "catch", !.threw = "fetch", !.err = Concat(FetchFailed, cause)]

\* lines 204-210: the fetch returns or throws
FetchReturns(j, ok, cause) ==
    /\ program = "server"
    /\ running = Idle
    /\ j \in DOMAIN proc
    /\ proc[j].pc = "fetching"
    /\ proc' = [proc EXCEPT ![j] = IF ok THEN [@ EXCEPT !.pc = "fetched"]
                                   ELSE FetchThrew(@, cause)]
    /\ running' = <<"job", j>>
    /\ UNCHANGED <<ui, batchVars, program, jobs, trail, clients, conns, reqs, cycles, store, envKey, autoKeys>>

\* A faulty variant of Generate: getGemini is called before the try block,
\* so what it throws leaves processFile without passing its catch block.
GenerateKeyErrorEscapes(j) ==
    /\ running = <<"job", j>>
    /\ proc[j].pc = "fetched"
    /\ updateJob(j, [progress |-> 30, message |-> Msg("Generating content with Gemini...")])
    /\ LET thrown == GetGemini(proc[j].keys, envKey)
       IN  IF thrown # Undefined
           THEN proc' = [proc EXCEPT ![j].pc = "thrown", ![j].threw = "getGemini",
                                     ![j].err = thrown]
           ELSE proc' = [proc EXCEPT ![j].pc = "generating", ![j].gens = @ + 1]
    /\ running' = Idle
    /\ UNCHANGED <<ui, batchVars, program, clients, reqs, cycles, store, envKey, autoKeys>>

\* lines 213-219: progress 30, getGemini, then await generateContent
Generate(j) ==
    /\ running = <<"job", j>>
    /\ proc[j].pc = "fetched"
    /\ updateJob(j, [progress |-> 30, message |-> Msg("Generating content with Gemini...")])
    /\ LET thrown == GetGemini(proc[j].keys, envKey)
       IN  IF thrown # Undefined
           THEN /\ proc' = [proc EXCEPT ![j].pc = "catch", ![j].threw = "getGemini",
                                         ![j].err = thrown]
                /\ UNCHANGED running
           ELSE /\ proc' = [proc EXCEPT ![j].pc = "generating", ![j].gens = @ + 1]
                /\ running' = Idle
    /\ UNCHANGED <<ui, batchVars, program, clients, reqs, cycles, store, envKey, autoKeys>>

\* lines 219-228: result.text is text, or empty, or the call throws
GenerateReturns(j, outcome, cause) ==
    /\ program = "server"
    /\ running = Idle
    /\ j \in DOMAIN proc
    /\ proc[j].pc = "generating"
    /\ proc' = CASE outcome = "text"  -> [proc EXCEPT ![j].pc = "generated"]
                 [] outcome = "empty" ->
                        [proc EXCEPT ![j].pc = "catch", ![j].threw = "empty",
                                     ![j].err = Concat(GenerationFailed,
                                                       "Gemini returned empty content")]
                 [] outcome = "throw" ->
                        [proc EXCEPT ![j].pc = "catch", ![j].threw = "generate",
                                     ![j].err = Concat(GenerationFailed, cause)]
    /\ running' = <<"job", j>>
    /\ UNCHANGED <<ui, batchVars, program, jobs, trail, clients, conns, reqs, cycles, store, envKey, autoKeys>>

\* lines 231-247: progress 70, then await cloudinary.uploader.upload
Upload(j) ==
    /\ running = <<"job", j>>
    /\ proc[j].pc = "generated"
    /\ updateJob(j, [progress |-> 70, message |-> Msg("Uploading to Cloudinary...")])
    /\ proc' = [proc EXCEPT ![j].pc = "uploading"]
    /\ running' = Idle
    /\ UNCHANGED <<ui, batchVars, program, clients, reqs, cycles, store, envKey, autoKeys>>

\* A faulty variant of UploadReturns: a failed upload is only logged and the
\* pipeline goes on to the PUT.
UploadReturnsSwallowed(j, ok, cause) ==
    /\ program = "server"
    /\ running = Idle
    /\ j \in DOMAIN proc
    /\ proc[j].pc = "uploading"
    /\ proc' = IF ok
               THEN [proc EXCEPT ![j].pc = "uploaded", ![j].url = <<"secure_url">>]
               ELSE [proc EXCEPT ![j].pc = "uploaded", ![j].threw = "upload"]
    /\ running' = <<"job", j>>
    /\ UNCHANGED <<ui, batchVars, program, jobs, trail, clients, conns, reqs, cycles, store, envKey, autoKeys>>

\* lines 243-250
UploadReturns(j, ok, cause) ==
    /\ program = "server"
    /\ running = Idle
    /\ j \in DOMAIN proc
    /\ proc[j].pc = "uploading"
    /\ proc' = IF ok
               THEN [proc EXCEPT ![j].pc = "uploaded", ![j].url = <<"secure_url">>]
               ELSE [proc EXCEPT ![j].pc = "catch", ![j].threw = "upload",
                                 ![j].err = Concat(PersistFailed, cause)]
    /\ running' = <<"job", j>>
    /\ UNCHANGED <<ui, batchVars, program, jobs, trail, clients, conns, reqs, cycles, store, envKey, autoKeys>>

\* lines 253-258: progress 90, then await axios.put(.../fileId, {status: 'AlreadyCopy'})
Reconcile(j) ==
    /\ running = <<"job", j>>
    /\ proc[j].pc = "uploaded"
    /\ updateJob(j, [progress |-> 90, message |-> Msg("Updating external API status...")])
    /\ proc' = [proc EXCEPT ![j].pc = "reconciling", ![j].puts = @ + 1]
    /\ running' = Idle
    /\ UNCHANGED <<ui, batchVars, program, clients, reqs, cycles, store, envKey, autoKeys>>

\* A faulty variant of ReconcileThrew: the error of the PUT is thrown on to
\* the catch block of processFile.
ReconcileThrewFatal(frame) ==
    [frame EXCEPT !.pc = "catch", !.threw = "reconcile", !.err = Msg("ETIMEDOUT")]

\* lines 259-261: the catch of the PUT logs the error and goes on
ReconcileThrew(frame) ==
    [frame EXCEPT !.pc = "completing", !.threw = "reconcile"]

\* lines 255-261: the PUT succeeds, or throws and is only logged
ReconcileReturns(j, ok) ==
    /\ program = "server"
    /\ running = Idle
    /\ j \in DOMAIN proc
    /\ proc[j].pc = "reconciling"
    /\ store' = IF ok THEN [store EXCEPT ![jobs[j].fileId] = "AlreadyCopy"] ELSE store
    /\ proc' = [proc EXCEPT ![j] = IF ok THEN [@ EXCEPT !.pc = "completing"]
                                   ELSE ReconcileThrew(@)]
    /\ running' = <<"job", j>>
    /\ UNCHANGED <<ui, batchVars, program, jobs, trail, clients, conns, reqs, cycles, envKey, autoKeys>>

\* processFile returns or throws: its locals are gone.  Four fields are kept
\* as a record of the activation: puts, the number of PUT calls it made,
\* gens, the number of generateContent calls it made, threw, the call of it
\* that threw, and err, the error its catch block caught
Returned(frame, how) ==
    [frame EXCEPT !.pc = how, !.keys = <<>>, !.url = Undefined]

\* A faulty variant of CallerAfter: what processFile throws is not caught in
\* the automation loop's for body and ends the cycle.
CallerAfterEndsCycle(j, thrown) ==
    LET caller == proc[j].caller
    IN  IF caller[1] = "req"
        THEN /\ reqs' = [reqs EXCEPT ![caller[2]] =
                            IF thrown = Undefined
                            THEN [@ EXCEPT !.pc = "done", !.code = 200, !.jobId = j]
                            ELSE [@ EXCEPT !.pc = "done", !.code = 500, !.error = thrown,
                                           !.jobId = IF Len(jobs) > 0 THEN Len(jobs) ELSE 0]]
             /\ UNCHANGED cycles
        ELSE /\ cycles' = [cycles EXCEPT ![caller[2]] =
                              IF thrown = Undefined THEN [@ EXCEPT !.pc = "pause"]
                              ELSE [pc |-> "done", pendingFiles |-> <<>>, idx |-> 1]]
             /\ UNCHANGED reqs

\* the caller's continuation: the manual trigger answers (lines 349-354), the
\* automation loop logs and waits 5 s (lines 317-323)
CallerAfter(j, thrown) ==
    LET caller == proc[j].caller
    IN  IF caller[1] = "req"
        THEN /\ reqs' = [reqs EXCEPT ![caller[2]] =
                            IF thrown = Undefined
                            THEN [@ EXCEPT !.pc = "done", !.code = 200, !.jobId = j]
                            ELSE [@ EXCEPT !.pc = "done", !.code = 500, !.error = thrown,
                                           !.jobId = IF Len(jobs) > 0 THEN Len(jobs) ELSE 0]]
             /\ UNCHANGED cycles
        ELSE /\ cycles' = [cycles EXCEPT ![caller[2]].pc = "pause"]
             /\ UNCHANGED reqs

\* A faulty variant of CompletedUpdate: the progress is left at its last value.
CompletedUpdateNoProgress(url) ==
    [status |-> "completed", message |-> Msg("Process completed successfully!"),
     result |-> url]

\* A faulty variant of Return: building the returned value throws inside the
\* try block, so the catch block runs next.
ReturnThrows(j) ==
    /\ proc' = [proc EXCEPT ![j].pc = "catch", ![j].err = Msg("TypeError")]
    /\ UNCHANGED <<reqs, cycles, running>>

\* lines 271-277: processFile returns to its caller
Return(j) ==
    /\ proc' = [proc EXCEPT ![j] = Returned(@, "returned")]
    /\ CallerAfter(j, Undefined)
    /\ running' = Idle

\* lines 264-269: the updates of the completion
CompletedUpdate(url) ==
    [status |-> "completed", progress |-> 100,
     message |-> Msg("Process completed successfully!"), result |-> url]

\* lines 264-277
Complete(j) ==
    /\ running = <<"job", j>>
    /\ proc[j].pc = "completing"
    /\ updateJob(j, CompletedUpdate(proc[j].url))
    /\ Return(j)
    /\ UNCHANGED <<ui, batchVars, program, clients, store, envKey, autoKeys>>

\* error.message || 'An error occurred'
MessageOr(message) == IF message = EmptyMsg THEN Msg("An error occurred") ELSE message

\* A faulty variant of FailedUpdate: the progress is not reset.
FailedUpdateKeepsProgress(err) ==
    [status |-> "failed", message |-> MessageOr(err), error |-> err]

\* lines 281-286: the updates of the catch block
FailedUpdate(err) ==
    [status |-> "failed", progress |-> 0, message |-> MessageOr(err), error |-> err]

\* lines 279-288
Catch(j) ==
    /\ running = <<"job", j>>
    /\ proc[j].pc = "catch"
    /\ updateJob(j, FailedUpdate(proc[j].err))
    /\ proc' = [proc EXCEPT ![j] = Returned(@, "thrown")]
    /\ CallerAfter(j, proc[j].err)
    /\ running' = Idle
    /\ UNCHANGED <<ui, batchVars, program, clients, store, envKey, autoKeys>>

---------------------------------------------------------------------------
(* POST /api/generate, server.ts 336-356 *)

\* the geminiApiKeys of a request body
RequestKeys == {<<>>, <<"YOUR_API_KEY", "AIza-request">>}

PostGenerateBody(fileId, geminiApiKeys) ==
    /\ program = "server"
    /\ running = Idle
    /\ Len(reqs) < MaxManual
    /\ IF fileId = NoFile
       THEN /\ reqs' = Append(reqs, [pc |-> "done", fileId |-> fileId, code |-> 400,
                                     error |-> Msg("Missing required parameters"),
                                     jobId |-> 0, job |-> 0])
            /\ UNCHANGED <<jobs, trail, proc, running>>
       ELSE /\ reqs' = Append(reqs, [pc |-> "awaiting", fileId |-> fileId, code |-> 0,
                                     error |-> Undefined, jobId |-> 0,
                                     job |-> Len(jobs) + 1])
            /\ ProcessFileEnter(fileId, <<"req", Len(reqs) + 1>>, geminiApiKeys)
    /\ UNCHANGED <<batchVars, program, clients, conns, cycles, store, envKey, autoKeys>>

PostGenerate(fileId, geminiApiKeys) == PostGenerateBody(fileId, geminiApiKeys) /\ UNCHANGED ui

---------------------------------------------------------------------------
(* runAutomation, server.ts 292-333 *)

\* files.filter(f => f.status === 'Pending'), in the store's order
RECURSIVE PendingFrom(_)
PendingFrom(f) ==
    IF f > NumFiles THEN <<>>
    ELSE IF store[f] = "Pending" THEN <<f>> \o PendingFrom(f + 1)
    ELSE PendingFrom(f + 1)

\* A faulty variant of IsProcessing: only a pending Job counts.
IsProcessingPendingOnly(fileId) ==
    \E j \in DOMAIN jobs : jobs[j].fileId = fileId /\ jobs[j].status = "pending"

\* line 303
IsProcessing(fileId) ==
    \E j \in DOMAIN jobs :
        jobs[j].fileId = fileId /\ jobs[j].status \in {"processing", "pending"}

\* setInterval / setTimeout fire: lines 293-295, await axios.get(EXTERNAL_API_URL)
StartCycle ==
    /\ program = "server"
    /\ running = Idle
    /\ Len(cycles) < MaxCycles
    /\ cycles' = Append(cycles, [pc |-> "listing", pendingFiles |-> <<>>, idx |-> 1])
    /\ UNCHANGED <<ui, batchVars, program, jobs, trail, clients, conns, proc, reqs, store, running,
                   envKey, autoKeys>>

\* lines 295-299 and 325-327: the listing returns, or throws and ends the cycle
ListReturns(c, ok) ==
    /\ program = "server"
    /\ running = Idle
    /\ c \in DOMAIN cycles
    /\ cycles[c].pc = "listing"
    /\ IF ok
       THEN /\ cycles' = [cycles EXCEPT ![c].pc = "loop",
                                        ![c].pendingFiles = PendingFrom(1)]
            /\ running' = <<"cyc", c>>
       ELSE /\ cycles' = [cycles EXCEPT ![c].pc = "done"]
            /\ UNCHANGED running
    /\ UNCHANGED <<ui, batchVars, program, jobs, trail, clients, conns, proc, reqs, store, envKey, autoKeys>>

\* lines 301-316: one turn of the for loop
LoopTurn(c) ==
    /\ running = <<"cyc", c>>
    /\ cycles[c].pc = "loop"
    /\ LET cyc == cycles[c]
       IN  IF cyc.idx > Len(cyc.pendingFiles)
           THEN /\ cycles' = [cycles EXCEPT ![c] = [pc |-> "done", pendingFiles |-> <<>>,
                                                        idx |-> 1]]
                /\ running' = Idle
                /\ UNCHANGED <<jobs, trail, proc>>
           ELSE LET file == cyc.pendingFiles[cyc.idx]
                IN  IF IsProcessing(file)
                    THEN /\ cycles' = [cycles EXCEPT ![c].idx = @ + 1]
                         /\ UNCHANGED <<jobs, trail, proc, running>>
                    ELSE /\ cycles' = [cycles EXCEPT ![c].pc = "awaiting"]
                         /\ ProcessFileEnter(file, <<"cyc", c>>, autoKeys)
    /\ UNCHANGED <<ui, batchVars, program, clients, conns, reqs, store, envKey, autoKeys>>

\* line 323: the 5 s pause ends and the loop goes to its next file
PauseEnds(c) ==
    /\ program = "server"
    /\ running = Idle
    /\ c \in DOMAIN cycles
    /\ cycles[c].pc = "pause"
    /\ cycles' = [cycles EXCEPT ![c].pc = "loop", ![c].idx = @ + 1]
    /\ running' = <<"cyc", c>>
    /\ UNCHANGED <<ui, batchVars, program, jobs, trail, clients, conns, proc, reqs, store, envKey, autoKeys>>

---------------------------------------------------------------------------
(* The page's generation loop: stopGeneration and startGeneration,          *)
(* server.ts 499-592.  The page runs in the browser, on its own event loop; *)
(* what it sends reaches the server in the order it was sent: the close of  *)
(* the last EventSource apart, which the server may see at any later time.  *)

\* number of activations of startGeneration
MaxLoops == 2

\* line 512: files.filter(f => f.status === 'Pending'), over the page's files
RECURSIVE UiPendingFrom(_)
UiPendingFrom(f) ==
    IF f > NumFiles THEN <<>>
    ELSE IF ui.files[f] = "Pending" THEN <<f>> \o UiPendingFrom(f + 1)
    ELSE UiPendingFrom(f + 1)

\* lines 516-534: the body of the for loop up to its await: the EventSource
\* is created and the POST is sent.  late records that the activation
\* starts a file after a stop was asked of it.
StartItem(loop) ==
    [loop EXCEPT !.pc = "connecting", !.req = 0, !.conn = 0,
                 !.late = @ \/ loop.stopAsked]

\* the activation startGeneration begins with, lines 510-512
NewLoop ==
    [pc |-> "new", pendingFiles |-> UiPendingFrom(1), idx |-> 1, req |-> 0, conn |-> 0,
     stopAsked |-> FALSE, late |-> FALSE]

\* lines 504-534: the button is pressed while isGenerating is false (it is
\* enabled when a file is Pending, line 786); the loop runs up to the first
\* await
StartClick ==
    /\ program = "server"
    /\ ~ui.isGenerating
    /\ Len(ui.loops) < MaxLoops
    /\ UiPendingFrom(1) # <<>>
    /\ ui' = [ui EXCEPT !.isGenerating = TRUE, !.stopRef = FALSE,
                        !.loops = Append(@, StartItem(NewLoop))]
    /\ UNCHANGED <<batchVars, program, store, jobs, trail, clients, conns, proc, reqs, cycles,
                   running, envKey, autoKeys>>

\* lines 505-508 and 499-502: the button is pressed while isGenerating is
\* true.  stopAsked records the activations the stop was asked of.
StopClick ==
    /\ program = "server"
    /\ ui.isGenerating
    /\ ui' = [ui EXCEPT !.stopRef = TRUE, !.isGenerating = FALSE,
                        !.loops = [l \in DOMAIN ui.loops |->
                                      IF ui.loops[l].pc # "done"
                                      THEN [ui.loops[l] EXCEPT !.stopAsked = TRUE]
                                      ELSE ui.loops[l]]]
    /\ UNCHANGED <<batchVars, program, store, jobs, trail, clients, conns, proc, reqs, cycles,
                   running, envKey, autoKeys>>

\* the file an activation is at
UiFile(l) == ui.loops[l].pendingFiles[ui.loops[l].idx]

\* line 519: the server receives the GET of the EventSource
UiSubscribe(l) ==
    /\ l \in DOMAIN ui.loops
    /\ ui.loops[l].pc = "connecting"
    /\ SubscribeBody(UiFile(l))
    /\ ui' = [ui EXCEPT !.loops[l].pc = "posting", !.loops[l].conn = Len(conns) + 1]

\* lines 532-540: the server receives the POST
UiPost(l, geminiApiKeys) ==
    /\ l \in DOMAIN ui.loops
    /\ ui.loops[l].pc = "posting"
    /\ PostGenerateBody(UiFile(l), geminiApiKeys)
    /\ ui' = [ui EXCEPT !.loops[l].pc = "awaiting", !.loops[l].req = Len(reqs) + 1]

\* lines 542-574: the answer arrives; on success the page marks the file,
\* and either way the loop pauses (1 s, or 2 s after an error)
UiResponse(l) ==
    /\ program = "server"
    /\ l \in DOMAIN ui.loops
    /\ ui.loops[l].pc = "awaiting"
    /\ reqs[ui.loops[l].req].pc = "done"
    /\ ui' = [ui EXCEPT !.loops[l].pc = "pause",
                        !.files[UiFile(l)] =
                            IF reqs[ui.loops[l].req].code = 200 THEN "AlreadyCopy" ELSE @]
    /\ UNCHANGED <<batchVars, program, store, jobs, trail, clients, conns, proc, reqs, cycles,
                   running, envKey, autoKeys>>

\* lines 575-576, 514-515 and 589-591: the pause ends; the EventSource is
\* closed, and the loop starts its next file, or is left when there is none
\* or the stop flag is set
UiPauseEnds(l) ==
    /\ program = "server"
    /\ l \in DOMAIN ui.loops
    /\ ui.loops[l].pc = "pause"
    /\ LET loop == ui.loops[l]
           closed == ui.closing \cup {loop.conn}
       IN  IF loop.idx + 1 > Len(loop.pendingFiles) \/ ui.stopRef
           THEN ui' = [ui EXCEPT !.closing = closed, !.loops[l].pc = "done",
                                 !.isGenerating = FALSE, !.stopRef = FALSE]
           ELSE ui' = [ui EXCEPT !.closing = closed,
                                 !.loops[l] = StartItem([loop EXCEPT !.idx = @ + 1])]
    /\ UNCHANGED <<batchVars, program, store, jobs, trail, clients, conns, proc, reqs, cycles,
                   running, envKey, autoKeys>>

\* the server sees the close of an EventSource (lines 165-167)
UiCloseSeen(c) ==
    /\ c \in ui.closing
    /\ CloseConnBody(c)
    /\ ui' = [ui EXCEPT !.closing = @ \ {c}]

---------------------------------------------------------------------------
(* The batch tool, src/unnamed/part_000 *)

BATCH_SIZE == 25
CONCURRENCY_LIMIT == 1
REQUEST_DELAY == 1200
MAX_RETRIES == 5

\* number of files the external store holds when the batch tool runs
NumBatchFiles == 3
\* number of GEMINI_API_KEY* variables of the environment
NumKeys == 3
\* the largest concurrency bound the tool is configured with; the source
\* sets CONCURRENCY_LIMIT
MaxConcurrency == 2

BatchFileIds == 1..NumBatchFiles

\* lines 24-28: the values of the GEMINI_API_KEY* variables, sorted by
\* variable name, the empty ones dropped
LoadKeys(env) == SelectSeq(env, LAMBDA k : k # "")

\* lines 37-41: the key getNextGemini hands out, and the index it leaves
NextKey == apiKeys[keyIndex + 1]

\* A faulty variant of NextKeyIndex: the index stops at the last key.
NextKeyIndexNoWrap == IF keyIndex + 1 < Len(apiKeys) THEN keyIndex + 1 ELSE keyIndex

NextKeyIndex == (keyIndex + 1) % Len(apiKeys)

\* the last Len(apiKeys) + 1 keys handed out, oldest first
Logged(log, key) ==
    LET all == Append(log, key)
    IN  IF Len(all) > Len(apiKeys) + 1 THEN Tail(all) ELSE all

getNextGemini ==
    /\ keyIndex' = NextKeyIndex
    /\ keyLog' = Logged(keyLog, NextKey)

\* lines 218-220
RECURSIVE BatchPendingFrom(_)
BatchPendingFrom(f) ==
    IF f > NumBatchFiles THEN <<>>
    ELSE IF store[f] = "Pending" THEN <<f>> \o BatchPendingFrom(f + 1)
    ELSE BatchPendingFrom(f + 1)

Slice(seq, n) == SubSeq(seq, 1, IF Len(seq) < n THEN Len(seq) ELSE n)

\* attempt, key and err are generateWithRetry's locals; calls counts the
\* generateContent calls of the current generateWithRetry, and resp is what
\* the last one answered
IdleWorker == [pc |-> "exit", item |-> 0, attempt |-> 0, key |-> "", err |-> Undefined,
               calls |-> 0, resp |-> ""]

\* A faulty variant of PoolSize: a worker for every file of the store.
PoolSizePerFile == NumBatchFiles

\* line 163: Array.from({ length: CONCURRENCY_LIMIT }, () => worker())
PoolSize == concurrencyLimit

\* lines 217-229 and 149-165: the listing returns; run takes the pending
\* files and runQueue starts its workers, each up to its first await
ListingReturns(ok) ==
    /\ program = "batch"
    /\ mainPc = "listing"
    /\ IF ~ok
       THEN /\ mainPc' = "fatal"
            /\ UNCHANGED <<batch, index, workers, itemLog>>
       ELSE LET pendingFiles == Slice(BatchPendingFrom(1), BATCH_SIZE)
                started == IF Len(pendingFiles) < PoolSize
                           THEN Len(pendingFiles) ELSE PoolSize
            IN  IF Len(pendingFiles) = 0
                THEN /\ mainPc' = "done"
                     /\ UNCHANGED <<batch, index, workers, itemLog>>
                ELSE /\ mainPc' = "queue"
                     /\ batch' = pendingFiles
                     /\ index' = started
                     /\ workers' = [w \in 1..PoolSize |->
                                       IF w <= started
                                       THEN [IdleWorker EXCEPT !.pc = "fetching", !.item = w]
                                       ELSE IdleWorker]
                     /\ itemLog' = [i \in 1..Len(pendingFiles) |->
                                       [claims |-> IF i <= started THEN 1 ELSE 0,
                                        puts |-> 0, threw |-> "none"]]
    /\ UNCHANGED <<program, serverVars, store, report, apiKeys, keyIndex, keyLog, results,
                   concurrencyLimit>>

\* A faulty variant of WorkerGoesOn: a failure ends the worker's loop.
WorkerStopsOnFailure(w, result, log) ==
    /\ results' = Append(results, result)
    /\ IF index >= Len(batch) \/ ~result.success
       THEN /\ workers' = [workers EXCEPT ![w] = IdleWorker]
            /\ itemLog' = log
            /\ UNCHANGED index
       ELSE /\ workers' = [workers EXCEPT ![w] =
                              [IdleWorker EXCEPT !.pc = "fetching", !.item = index + 1]]
            /\ index' = index + 1
            /\ itemLog' = [log EXCEPT ![index + 1].claims = @ + 1]

\* A faulty variant of WorkerGoesOn: the worker reads the cursor without
\* advancing it.
WorkerKeepsCursor(w, result, log) ==
    /\ results' = Append(results, result)
    /\ IF index > Len(batch)
       THEN /\ workers' = [workers EXCEPT ![w] = IdleWorker]
            /\ itemLog' = log
            /\ UNCHANGED index
       ELSE /\ workers' = [workers EXCEPT ![w] =
                              [IdleWorker EXCEPT !.pc = "fetching", !.item = index]]
            /\ UNCHANGED index
            /\ itemLog' = [log EXCEPT ![index].claims = @ + 1]

\* lines 159-160 and 155-158: processFile returned `result`; the worker
\* pushes it and claims the next file, or leaves its loop.  log is itemLog
\* with what this step records of the file that ends.
WorkerGoesOn(w, result, log) ==
    /\ results' = Append(results, result)
    /\ IF index >= Len(batch)
       THEN /\ workers' = [workers EXCEPT ![w] = IdleWorker]
            /\ itemLog' = log
            /\ UNCHANGED index
       ELSE /\ workers' = [workers EXCEPT ![w] =
                              [IdleWorker EXCEPT !.pc = "fetching", !.item = index + 1]]
            /\ index' = index + 1
            /\ itemLog' = [log EXCEPT ![index + 1].claims = @ + 1]

\* lines 140 and 144: what processFile returns
Success(item) == [success |-> TRUE, name |-> item, error |-> Undefined]
Failure(item, message) == [success |-> FALSE, name |-> item, error |-> message]

\* lines 121-127 and 85-90: the fetch returns and generateWithRetry starts
\* its first attempt, or the fetch throws (lines 142-144)
BatchFetchReturns(w, ok, cause) ==
    /\ program = "batch"
    /\ mainPc = "queue"
    /\ w \in DOMAIN workers
    /\ workers[w].pc = "fetching"
    /\ IF ok
       THEN /\ getNextGemini
            /\ workers' = [workers EXCEPT ![w].pc = "delay", ![w].attempt = 0,
                                          ![w].key = NextKey, ![w].calls = 0]
            /\ UNCHANGED <<results, index, itemLog>>
       ELSE /\ WorkerGoesOn(w, Failure(workers[w].item, Msg(cause)),
                                   [itemLog EXCEPT ![workers[w].item].threw = "fetch"])
            /\ UNCHANGED <<keyIndex, keyLog>>
    /\ UNCHANGED <<program, serverVars, store, report, apiKeys, batch, mainPc, concurrencyLimit>>

\* lines 90 and 109: the time in ms the sleep a worker is in lasts:
\* sleep(REQUEST_DELAY) before the call, sleep(1000 * attempt) after a failure
Sleep(worker) ==
    CASE worker.pc = "delay"   -> REQUEST_DELAY
      [] worker.pc = "backoff" -> 1000 * worker.attempt
      [] OTHER                 -> 0

\* lines 90-92: the courtesy pause ends and generateContent is called
DelayEnds(w) ==
    /\ program = "batch"
    /\ mainPc = "queue"
    /\ w \in DOMAIN workers
    /\ workers[w].pc = "delay"
    /\ workers' = [workers EXCEPT ![w].pc = "generating", ![w].calls = @ + 1]
    /\ UNCHANGED <<program, serverVars, store, report, apiKeys, keyIndex, keyLog, batch, index, results,
                   mainPc, itemLog, concurrencyLimit>>

\* the message of the error an attempt ends with (line 98, or the SDK's)
AttemptError(outcome) ==
    CASE outcome = "empty" -> Msg("Empty response")
      [] outcome = "429"   -> Msg("429 Too Many Requests")
      [] outcome = "throw" -> Msg("ETIMEDOUT")

\* A faulty variant of Accepted: an empty text is returned as the result.
AcceptedEvenEmpty(outcome) == outcome \in {"text", "empty"}

\* line 98: the answer has a text
Accepted(outcome) == outcome = "text"

\* lines 92-109 and 129-134: generateContent returns a text, and processFile
\* writes the file and calls the PUT (or writeFileSync throws); or the
\* attempt fails (empty text, an error, a 429) and the backoff pause starts
BatchGenerateReturns(w, outcome, written) ==
    /\ program = "batch"
    /\ mainPc = "queue"
    /\ w \in DOMAIN workers
    /\ workers[w].pc = "generating"
    /\ IF Accepted(outcome)
       THEN IF written
            THEN /\ workers' = [workers EXCEPT ![w].pc = "putting", ![w].resp = outcome]
                 /\ itemLog' = [itemLog EXCEPT ![workers[w].item].puts = @ + 1]
                 /\ UNCHANGED <<results, index>>
            ELSE WorkerGoesOn(w, Failure(workers[w].item, Msg("EACCES")),
                                     [itemLog EXCEPT ![workers[w].item].threw = "write"])
       ELSE /\ written
            /\ workers' = [workers EXCEPT ![w].pc = "backoff", ![w].attempt = @ + 1,
                                          ![w].err = AttemptError(outcome),
                                          ![w].resp = outcome]
            /\ UNCHANGED <<results, index, itemLog>>
    /\ UNCHANGED <<program, serverVars, store, report, apiKeys, keyIndex, keyLog, batch, mainPc,
                   concurrencyLimit>>

\* A faulty variant of Exhausted: one attempt too many.
ExhaustedOffByOne(attempt) == attempt > MAX_RETRIES

\* lines 87 and 111: no attempt is left
Exhausted(attempt) == attempt >= MAX_RETRIES

\* A faulty variant of BackoffEnds: the key is changed after a 429 only.
BackoffEndsSameKey(w) ==
    /\ program = "batch"
    /\ mainPc = "queue"
    /\ w \in DOMAIN workers
    /\ workers[w].pc = "backoff"
    /\ IF Exhausted(workers[w].attempt)
       THEN /\ WorkerGoesOn(w, Failure(workers[w].item, workers[w].err),
                                   [itemLog EXCEPT ![workers[w].item].threw = "generate"])
            /\ UNCHANGED <<keyIndex, keyLog>>
       ELSE /\ IF workers[w].resp = "429"
               THEN /\ getNextGemini
                    /\ workers' = [workers EXCEPT ![w].pc = "delay", ![w].key = NextKey,
                                                  ![w].err = Undefined, ![w].resp = ""]
               ELSE /\ UNCHANGED <<keyIndex, keyLog>>
                    /\ workers' = [workers EXCEPT ![w].pc = "delay",
                                                  ![w].err = Undefined, ![w].resp = ""]
            /\ UNCHANGED <<results, index, itemLog>>
    /\ UNCHANGED <<program, serverVars, store, report, apiKeys, batch, mainPc, concurrencyLimit>>

\* lines 109-111 and 87-90: the backoff pause ends; generateWithRetry throws
\* the attempt's error when the attempts are used up (processFile returns a
\* failure, lines 142-144), and starts the next attempt otherwise
BackoffEnds(w) ==
    /\ program = "batch"
    /\ mainPc = "queue"
    /\ w \in DOMAIN workers
    /\ workers[w].pc = "backoff"
    /\ IF Exhausted(workers[w].attempt)
       THEN /\ WorkerGoesOn(w, Failure(workers[w].item, workers[w].err),
                                   [itemLog EXCEPT ![workers[w].item].threw = "generate"])
            /\ UNCHANGED <<keyIndex, keyLog>>
       ELSE /\ getNextGemini
            /\ workers' = [workers EXCEPT ![w].pc = "delay", ![w].key = NextKey,
                                          ![w].err = Undefined, ![w].resp = ""]
            /\ UNCHANGED <<results, index, itemLog>>
    /\ UNCHANGED <<program, serverVars, store, report, apiKeys, batch, mainPc, concurrencyLimit>>

\* lines 134-144: the PUT returns and processFile returns success, or the
\* PUT throws into processFile's catch
PutReturns(w, ok, cause) ==
    /\ program = "batch"
    /\ mainPc = "queue"
    /\ w \in DOMAIN workers
    /\ workers[w].pc = "putting"
    /\ IF ok
       THEN /\ store' = [store EXCEPT ![batch[workers[w].item]] = "AlreadyCopy"]
            /\ WorkerGoesOn(w, Success(workers[w].item), itemLog)
       ELSE /\ WorkerGoesOn(w, Failure(workers[w].item, Msg(cause)),
                                   [itemLog EXCEPT ![workers[w].item].threw = "put"])
            /\ UNCHANGED store
    /\ UNCHANGED <<program, serverVars, report, apiKeys, keyIndex, keyLog, batch, mainPc,
                   concurrencyLimit>>

\* A faulty variant of Succeeded: every result is counted as a success.
SucceededAll == results

\* lines 231-232
Succeeded == SelectSeq(results, LAMBDA r : r.success)
Failed == SelectSeq(results, LAMBDA r : ~r.success)

\* lines 165-167 and 229-236: every worker has left its loop; run splits the
\* results and sends the report, which may throw (lines 238-241)
Report(sent) ==
    /\ program = "batch"
    /\ mainPc = "queue"
    /\ \A w \in DOMAIN workers : workers[w].pc = "exit"
    /\ mainPc' = IF sent THEN "done" ELSE "fatal"
    /\ report' = [success |-> Succeeded, failed |-> Failed]
    /\ UNCHANGED <<program, serverVars, store, apiKeys, keyIndex, keyLog, batch, index, results,
                   workers, itemLog, concurrencyLimit>>

---------------------------------------------------------------------------
(* The server *)

ServerVarsInit ==
    /\ jobs = <<>>
    /\ trail = <<>>
    /\ clients = [f \in FileIds |-> 0]
    /\ conns = <<>>
    /\ proc = <<>>
    /\ reqs = <<>>
    /\ cycles = <<>>
    /\ running = Idle
    /\ envKey = ""
    /\ autoKeys = <<"AIza-auto">>
    /\ ui = [isGenerating |-> FALSE, stopRef |-> FALSE,
             files |-> [f \in FileIds |-> "Pending"], loops |-> <<>>, closing |-> {}]

BatchVarsInit ==
    /\ keyIndex = 0
    /\ keyLog = <<>>
    /\ batch = <<>>
    /\ index = 0
    /\ results = <<>>
    /\ workers = <<>>
    /\ itemLog = <<>>
    /\ report = [success |-> <<>>, failed |-> <<>>]

\* The server after its module has loaded.  GEMINI_API_KEY is not set and
\* GEMINI_API_KEYS holds one key; the batch tool's variables are not used.
Init ==
    /\ program = "server"
    /\ ServerVarsInit
    /\ store = [f \in FileIds |-> "Pending"]
    /\ BatchVarsInit
    /\ apiKeys = <<>>
    /\ concurrencyLimit = CONCURRENCY_LIMIT
    /\ mainPc = "off"

\* The SSE handlers Subscribe and CloseConn are not part of Next: they write
\* clients and conns only, and the actions of Next read neither but to write
\* a frame to a connection.  SseNext below has them.
Next ==
    \/ \E f \in FileIds \cup {NoFile}, k \in RequestKeys : PostGenerate(f, k)
    \/ StartCycle
    \/ \E c \in 1..MaxCycles, ok \in BOOLEAN : ListReturns(c, ok)
    \/ \E c \in 1..MaxCycles : LoopTurn(c)
    \/ \E c \in 1..MaxCycles : PauseEnds(c)
    \/ \E j \in 1..MaxJobs : StartProcessing(j)
    \/ \E j \in 1..MaxJobs : FetchPrompt(j)
    \/ \E j \in 1..MaxJobs, ok \in BOOLEAN, m \in Causes : FetchReturns(j, ok, m)
    \/ \E j \in 1..MaxJobs : Generate(j)
    \/ \E j \in 1..MaxJobs, o \in {"text", "empty", "throw"}, m \in Causes :
           GenerateReturns(j, o, m)
    \/ \E j \in 1..MaxJobs : Upload(j)
    \/ \E j \in 1..MaxJobs, ok \in BOOLEAN, m \in Causes : UploadReturns(j, ok, m)
    \/ \E j \in 1..MaxJobs : Reconcile(j)
    \/ \E j \in 1..MaxJobs, ok \in BOOLEAN : ReconcileReturns(j, ok)
    \/ \E j \in 1..MaxJobs : Complete(j)
    \/ \E j \in 1..MaxJobs : Catch(j)

Spec == Init /\ [][Next]_vars

\* the steps of processFile for Job j, from line 195 to its return or throw
JobStep(j) ==
    \/ StartProcessing(j)
    \/ FetchPrompt(j)
    \/ \E ok \in BOOLEAN, m \in Causes : FetchReturns(j, ok, m)
    \/ Generate(j)
    \/ \E o \in {"text", "empty", "throw"}, m \in Causes : GenerateReturns(j, o, m)
    \/ Upload(j)
    \/ \E ok \in BOOLEAN, m \in Causes : UploadReturns(j, ok, m)
    \/ Reconcile(j)
    \/ \E ok \in BOOLEAN : ReconcileReturns(j, ok)
    \/ Complete(j)
    \/ Catch(j)

\* Next, with the bound on the number of Jobs applied where a continuation
\* of runAutomation is scheduled (a turn of its for loop creates at most one
\* Job before its next await), so that the bound cuts no synchronous code.
LiveNext ==
    \/ \E f \in FileIds \cup {NoFile}, k \in RequestKeys : PostGenerate(f, k)
    \/ StartCycle
    \/ \E c \in 1..MaxCycles, ok \in BOOLEAN :
           (ok => Len(jobs) < MaxJobs) /\ ListReturns(c, ok)
    \/ \E c \in 1..MaxCycles : LoopTurn(c)
    \/ \E c \in 1..MaxCycles : Len(jobs) < MaxJobs /\ PauseEnds(c)
    \/ \E j \in 1..MaxJobs : StartProcessing(j)
    \/ \E j \in 1..MaxJobs : FetchPrompt(j)
    \/ \E j \in 1..MaxJobs, ok \in BOOLEAN, m \in Causes : FetchReturns(j, ok, m)
    \/ \E j \in 1..MaxJobs : Generate(j)
    \/ \E j \in 1..MaxJobs, o \in {"text", "empty", "throw"}, m \in Causes :
           GenerateReturns(j, o, m)
    \/ \E j \in 1..MaxJobs : Upload(j)
    \/ \E j \in 1..MaxJobs, ok \in BOOLEAN, m \in Causes : UploadReturns(j, ok, m)
    \/ \E j \in 1..MaxJobs : Reconcile(j)
    \/ \E j \in 1..MaxJobs, ok \in BOOLEAN : ReconcileReturns(j, ok)
    \/ \E j \in 1..MaxJobs : Complete(j)
    \/ \E j \in 1..MaxJobs : Catch(j)

\* The server when every awaited call of processFile returns or throws, and
\* the event loop runs every continuation that is ready: synchronous code
\* (a Job's steps between two awaits, a turn of the automation's for loop)
\* runs to its next await.
ServerLiveSpec ==
    /\ Init /\ [][LiveNext]_vars
    /\ \A j \in 1..MaxJobs : WF_vars(JobStep(j))
    /\ \A c \in 1..MaxCycles : WF_vars(LoopTurn(c))

\* The server with its SSE clients, with manual triggers only and MaxSseJobs
\* Jobs: each connection keeps all that was written to it, so the states
\* multiply with every Job that writes.
SseNext ==
    \/ \E f \in FileIds : Subscribe(f)
    \/ \E c \in 1..MaxConns : CloseConn(c)
    \/ \E f \in FileIds \cup {NoFile}, k \in RequestKeys :
           Len(jobs) < MaxSseJobs /\ PostGenerate(f, k)
    \/ \E j \in 1..MaxJobs : StartProcessing(j)
    \/ \E j \in 1..MaxJobs : FetchPrompt(j)
    \/ \E j \in 1..MaxJobs, ok \in BOOLEAN, m \in Causes : FetchReturns(j, ok, m)
    \/ \E j \in 1..MaxJobs : Generate(j)
    \/ \E j \in 1..MaxJobs, o \in {"text", "empty", "throw"}, m \in Causes :
           GenerateReturns(j, o, m)
    \/ \E j \in 1..MaxJobs : Upload(j)
    \/ \E j \in 1..MaxJobs, ok \in BOOLEAN, m \in Causes : UploadReturns(j, ok, m)
    \/ \E j \in 1..MaxJobs : Reconcile(j)
    \/ \E j \in 1..MaxJobs, ok \in BOOLEAN : ReconcileReturns(j, ok)
    \/ \E j \in 1..MaxJobs : Complete(j)
    \/ \E j \in 1..MaxJobs : Catch(j)

SseSpec == Init /\ [][SseNext]_vars

\* The server with the page: the manual triggers are those of the page's
\* generation loop.
UiNext ==
    \/ StartClick
    \/ StopClick
    \/ \E l \in 1..MaxLoops : UiSubscribe(l)
    \/ \E l \in 1..MaxLoops, k \in RequestKeys : UiPost(l, k)
    \/ \E l \in 1..MaxLoops : UiResponse(l)
    \/ \E l \in 1..MaxLoops : UiPauseEnds(l)
    \/ \E c \in 1..MaxConns : UiCloseSeen(c)
    \/ \E j \in 1..MaxJobs : StartProcessing(j)
    \/ \E j \in 1..MaxJobs : FetchPrompt(j)
    \/ \E j \in 1..MaxJobs, ok \in BOOLEAN, m \in Causes : FetchReturns(j, ok, m)
    \/ \E j \in 1..MaxJobs : Generate(j)
    \/ \E j \in 1..MaxJobs, o \in {"text", "empty", "throw"}, m \in Causes :
           GenerateReturns(j, o, m)
    \/ \E j \in 1..MaxJobs : Upload(j)
    \/ \E j \in 1..MaxJobs, ok \in BOOLEAN, m \in Causes : UploadReturns(j, ok, m)
    \/ \E j \in 1..MaxJobs : Reconcile(j)
    \/ \E j \in 1..MaxJobs, ok \in BOOLEAN : ReconcileReturns(j, ok)
    \/ \E j \in 1..MaxJobs : Complete(j)
    \/ \E j \in 1..MaxJobs : Catch(j)

UiSpec == Init /\ [][UiNext]_vars

---------------------------------------------------------------------------
(* The batch tool *)

\* the environments the tool is started in: NumKeys GEMINI_API_KEY*
\* variables with a key each, or a single one that is empty, or a single one
\* that still holds the placeholder of the sample configuration
KeyNames == <<"AIza-1", "AIza-2", "AIza-3", "AIza-4", "AIza-5">>
Environments == {SubSeq(KeyNames, 1, NumKeys), <<"">>, <<"YOUR_API_KEY">>}

\* The batch tool after its module has loaded (lines 24-36): the keys are
\* read, and the load throws when there is none; run() has called the listing.
BatchInit ==
    /\ program = "batch"
    /\ ServerVarsInit
    /\ BatchVarsInit
    /\ store \in [BatchFileIds -> {"Pending", "AlreadyCopy"}]
    /\ \E env \in Environments :
          /\ apiKeys = LoadKeys(env)
          /\ mainPc = IF Len(LoadKeys(env)) = 0 THEN "aborted" ELSE "listing"
    /\ concurrencyLimit \in CONCURRENCY_LIMIT..MaxConcurrency

BatchNext ==
    \/ \E ok \in BOOLEAN : ListingReturns(ok)
    \/ \E w \in 1..MaxConcurrency, ok \in BOOLEAN, m \in Causes :
           BatchFetchReturns(w, ok, m)
    \/ \E w \in 1..MaxConcurrency : DelayEnds(w)
    \/ \E w \in 1..MaxConcurrency, o \in {"text", "empty", "429", "throw"},
          written \in BOOLEAN : BatchGenerateReturns(w, o, written)
    \/ \E w \in 1..MaxConcurrency : BackoffEnds(w)
    \/ \E w \in 1..MaxConcurrency, ok \in BOOLEAN, m \in Causes : PutReturns(w, ok, m)
    \/ \E sent \in BOOLEAN : Report(sent)

BatchSpec == BatchInit /\ [][BatchNext]_vars

\* The batch tool when every call it awaits (an HTTP call, a timer)
\* eventually returns or throws: a step that can be taken is taken.
BatchLiveSpec == BatchSpec /\ WF_vars(BatchNext)

---------------------------------------------------------------------------
(* Either program: the server or the batch tool *)

RepoInit == Init \/ BatchInit

RepoNext == Next \/ BatchNext

RepoSpec == RepoInit /\ [][RepoNext]_vars

---------------------------------------------------------------------------
(* Properties of the server's jobs *)

NonTerminal(j) == jobs[j].status \in {"pending", "processing"}
Terminal(j) == jobs[j].status \in {"completed", "failed"}

\* C1: in every reachable state there is, for every fileId, at most one Job
\* that is pending or processing.
C1_OneNonTerminalJobPerFile ==
    \A j1, j2 \in DOMAIN jobs :
        (jobs[j1].fileId = jobs[j2].fileId /\ NonTerminal(j1) /\ NonTerminal(j2))
            => j1 = j2

\* a Job of the file is pending or processing
InFlight(fileId) == \E j \in DOMAIN jobs : jobs[j].fileId = fileId /\ NonTerminal(j)

\* the file the cycle's for loop is at, 0 past the end of the list
FileAt(c) ==
    IF cycles[c].idx <= Len(cycles[c].pendingFiles)
    THEN cycles[c].pendingFiles[cycles[c].idx] ELSE 0

\* C2: when the for loop of an automation cycle is at a file that has a
\* pending or processing Job, its turn creates no Job, does not enter
\* processFile, and leaves the loop at the next file.
C2_CycleSkipsInFlight ==
    [][\A c \in DOMAIN cycles :
          (/\ running = <<"cyc", c>>
           /\ cycles[c].pc = "loop"
           /\ FileAt(c) # 0
           /\ InFlight(FileAt(c)))
          => /\ jobs' = jobs
             /\ proc' = proc
             /\ cycles'[c].pc = "loop"
             /\ cycles'[c].idx = cycles[c].idx + 1]_vars

\* a cycle is past its first file without having called processFile, and
\* that file has a Job in flight
C2_Witness ==
    \E c \in DOMAIN cycles :
        /\ cycles[c].pc = "loop"
        /\ cycles[c].idx = 2
        /\ InFlight(cycles[c].pendingFiles[1])
        /\ \A j \in DOMAIN proc : proc[j].caller # <<"cyc", c>>

StatusOrder ==
    {<<"pending", "processing">>, <<"processing", "completed">>,
     <<"processing", "failed">>}

Last(seq) == seq[Len(seq)]

\* C3: a Job is created pending, and over its lifetime its status changes
\* only from pending to processing and from processing to completed or to
\* failed; nothing follows completed or failed.
C3_StatusOrder ==
    /\ DOMAIN trail = DOMAIN jobs
    /\ \A j \in DOMAIN jobs :
          /\ trail[j][1].status = "pending"
          /\ Last(trail[j]) = jobs[j]
          /\ \A k \in 1..(Len(trail[j]) - 1) :
                \/ trail[j][k + 1].status = trail[j][k].status
                \/ <<trail[j][k].status, trail[j][k + 1].status>> \in StatusOrder

\* one Job went all the way to completed and another to failed
C3_Witness ==
    \E j1, j2 \in DOMAIN jobs :
        jobs[j1].status = "completed" /\ jobs[j2].status = "failed"

\* C4: a Job that is completed or failed is what the updateJob that made it
\* so left, and no updateJob was applied to it since.
C4_TerminalImmutable ==
    \A j \in DOMAIN jobs :
        /\ Terminal(j) => jobs[j] = Last(trail[j])
        /\ \A k \in 1..(Len(trail[j]) - 1) :
              trail[j][k].status \notin {"completed", "failed"}

\* a Job completed, and a later Job of the same file has been run to its
\* failure since
C4_Witness ==
    \E j1, j2 \in DOMAIN jobs :
        /\ j1 < j2
        /\ jobs[j1].fileId = jobs[j2].fileId
        /\ jobs[j1].status = "completed"
        /\ jobs[j2].status = "failed"
        /\ proc[j1].pc = "returned"

\* C5: the progress values of a Job that is completed never went down and
\* end at 100, and a completed Job has progress 100 and a result.
C5_ProgressOfCompleted ==
    \A j \in DOMAIN jobs :
        jobs[j].status = "completed"
           => /\ jobs[j].progress = 100
              /\ jobs[j].result # Undefined
              /\ Last(trail[j]).progress = 100
              /\ \A k \in 1..(Len(trail[j]) - 1) :
                    trail[j][k].progress <= trail[j][k + 1].progress

\* a completed Job whose progress went through 0, 5, 10, 30, 70, 90, 100
C5_Witness ==
    \E j \in DOMAIN jobs :
        /\ jobs[j].status = "completed"
        /\ jobs[j].result = <<"secure_url">>
        /\ [k \in 1..Len(trail[j]) |-> trail[j][k].progress] = <<0, 5, 10, 30, 70, 90, 100>>

\* the calls of processFile whose throw reaches its catch block
Stages == {"fetch", "getGemini", "empty", "generate", "upload"}

\* C6: the progress of a Job goes down only in the step that makes it
\* failed; a Job one of whose stages threw is in the catch block or failed;
\* and the catch block leaves the Job failed with progress 0 and with error
\* and message equal to the message of the error it caught.
C6_FailureResetsProgress ==
    \A j \in DOMAIN jobs :
        /\ \A k \in 1..(Len(trail[j]) - 1) :
              trail[j][k + 1].progress < trail[j][k].progress
                 => (trail[j][k].status = "processing" /\ trail[j][k + 1].status = "failed")
        /\ proc[j].threw \in Stages => proc[j].pc \in {"catch", "thrown"}
        /\ proc[j].pc = "thrown"
              => /\ jobs[j].status = "failed"
                 /\ jobs[j].progress = 0
                 /\ proc[j].err # Undefined
                 /\ jobs[j].error = proc[j].err
                 /\ jobs[j].message = proc[j].err
        /\ jobs[j].status = "failed" => proc[j].pc = "thrown"

\* one Job failed at its fetch and another at its upload, after progress 70
C6_Witness ==
    \E j1, j2 \in DOMAIN jobs :
        /\ proc[j1].threw = "fetch" /\ jobs[j1].status = "failed"
        /\ proc[j2].threw = "upload" /\ jobs[j2].status = "failed"
        /\ jobs[j1].progress = 0 /\ jobs[j2].progress = 0
        /\ \E k \in DOMAIN trail[j2] : trail[j2][k].progress = 70

---------------------------------------------------------------------------
(* Properties of the batch tool's retry loop and key rotation *)

\* C7: generateWithRetry gives up only after exactly MAX_RETRIES calls of
\* generateContent, every one of them failed: it never makes more than
\* MAX_RETRIES calls, each failed call uses up one attempt, after a failed
\* call with attempts left it goes on to the next attempt, and when it
\* throws, the calls made are MAX_RETRIES and processFile returns the
\* failure with the last attempt's error.
C7_ExactlyMaxRetries ==
    [][\A w \in DOMAIN workers' :
          /\ workers'[w].calls <= MAX_RETRIES
          /\ workers'[w].pc = "generating" => workers'[w].calls = workers'[w].attempt + 1
          /\ workers'[w].pc = "backoff" => workers'[w].calls = workers'[w].attempt
          /\ (w \in DOMAIN workers /\ workers[w].pc = "backoff"
                /\ workers'[w].pc # "backoff")
                => IF workers[w].calls < MAX_RETRIES
                   THEN /\ workers'[w].pc = "delay"
                        /\ workers'[w].item = workers[w].item
                        /\ results' = results
                   ELSE /\ workers[w].calls = MAX_RETRIES
                        /\ workers'[w].pc \in {"fetching", "exit"}
                        /\ results' = Append(results,
                                             Failure(workers[w].item, workers[w].err))]_vars

\* a file failed because generateWithRetry gave up
C7_Witness ==
    \E i \in DOMAIN itemLog :
        /\ itemLog[i].threw = "generate"
        /\ \E r \in DOMAIN results : results[r].name = i /\ ~results[r].success

\* C8: an empty text is never taken as the result: the attempt it answers
\* ends in the catch block with the error 'Empty response', uses up one
\* attempt, and is followed by another attempt when one is left.
C8_EmptyIsFailure ==
    [][\A w \in DOMAIN workers' :
          /\ workers'[w].resp = "empty"
                => /\ workers'[w].pc = "backoff"
                   /\ workers'[w].err = Msg("Empty response")
          /\ workers'[w].pc = "putting" => workers'[w].resp = "text"
          /\ (w \in DOMAIN workers /\ workers[w].pc = "generating"
                /\ workers'[w].resp = "empty")
                => workers'[w].attempt = workers[w].attempt + 1
          /\ (w \in DOMAIN workers /\ workers[w].resp = "empty"
                /\ workers[w].attempt < MAX_RETRIES /\ workers'[w] # workers[w])
                => (workers'[w].pc = "delay" /\ workers'[w].item = workers[w].item)]_vars

\* an attempt after an empty answer is on its way
C8_Witness ==
    \E w \in DOMAIN workers :
        /\ workers[w].pc = "backoff"
        /\ workers[w].resp = "empty"
        /\ workers[w].attempt = 2

\* C9: the rotation index stays within the pool; of the last N + 1 keys
\* handed out, N being the size of the pool, the first and the last are the
\* same; and any N keys handed out in a row are N different keys.
C9_RoundRobin ==
    LET N == Len(apiKeys)
    IN  N > 0 =>
          /\ keyIndex \in 0..(N - 1)
          /\ Len(keyLog) = N + 1 => keyLog[1] = keyLog[N + 1]
          /\ \A a, b \in DOMAIN keyLog : (a < b /\ b - a < N) => keyLog[a] # keyLog[b]
          /\ \A a \in DOMAIN keyLog : \E k \in DOMAIN apiKeys : keyLog[a] = apiKeys[k]

\* N + 1 keys were handed out while two workers were inside generateWithRetry
C9_Witness ==
    /\ Len(apiKeys) > 1
    /\ Len(keyLog) = Len(apiKeys) + 1
    /\ \E w1, w2 \in DOMAIN workers :
          /\ w1 # w2
          /\ workers[w1].pc \in {"delay", "generating", "backoff"}
          /\ workers[w2].pc \in {"delay", "generating", "backoff"}
          /\ workers[w1].key # workers[w2].key

---------------------------------------------------------------------------
(* Properties of both pipelines *)

\* C10: a run of the server's processFile whose fetch threw makes no PUT to
\* the external store and is in its catch block or has thrown, and has then
\* left its Job failed with the error 'Failed to fetch prompt file: ...';
\* a file of the batch whose fetch threw has a failure among the results
\* and no PUT was made for it.
C10_FetchFailureMarksNothing ==
    /\ \A j \in DOMAIN proc :
          proc[j].threw = "fetch"
             => /\ proc[j].puts = 0
                /\ proc[j].pc \in {"catch", "thrown"}
                /\ proc[j].pc = "catch" => proc[j].err[1] = FetchFailed
                /\ proc[j].pc = "thrown"
                      => /\ jobs[j].status = "failed"
                         /\ jobs[j].error[1] = FetchFailed
                         /\ jobs[j].message = jobs[j].error
    /\ \A i \in DOMAIN itemLog :
          itemLog[i].threw = "fetch"
             => /\ itemLog[i].puts = 0
                /\ \E r \in DOMAIN results : results[r].name = i /\ ~results[r].success

\* the server has a Job that failed at its fetch while the file is still
\* Pending at the store
C10_Witness ==
    \E j \in DOMAIN proc :
        /\ proc[j].threw = "fetch"
        /\ proc[j].pc = "thrown"
        /\ jobs[j].status = "failed"
        /\ store[jobs[j].fileId] = "Pending"

\* the batch tool has a file whose fetch threw, and it is still Pending
C10_BatchWitness ==
    \E i \in DOMAIN itemLog :
        /\ itemLog[i].threw = "fetch"
        /\ store[batch[i]] = "Pending"

---------------------------------------------------------------------------
(* C11: in the server, when the PUT that marks the file AlreadyCopy throws  *)
(* after a successful upload, the Job is never failed because of it: it     *)
(* ends completed with progress 100 and its result (the uploaded URL), and  *)
(* processFile returns to its caller, which answers success.                *)

ReconcileThrown(j) == proc[j].threw = "reconcile"

C11_ReconcileFailureIsSwallowed ==
    \A j \in DOMAIN jobs :
        ReconcileThrown(j) =>
            /\ proc[j].pc \in {"completing", "returned"}
            /\ \A k \in DOMAIN trail[j] : trail[j][k].status # "failed"
            /\ proc[j].pc = "returned" =>
                   /\ jobs[j].status = "completed"
                   /\ jobs[j].progress = 100
                   /\ jobs[j].result = <<"secure_url">>
                   /\ jobs[j].error = Undefined
                   /\ proc[j].caller[1] = "req" =>
                          /\ reqs[proc[j].caller[2]].code = 200
                          /\ reqs[proc[j].caller[2]].jobId = j

\* processFile has returned after its PUT threw, to a manual trigger, and the
\* store still lists the file as Pending
C11_Witness ==
    \E j \in DOMAIN jobs :
        /\ ReconcileThrown(j)
        /\ proc[j].pc = "returned"
        /\ proc[j].caller[1] = "req"
        /\ jobs[j].status = "completed"
        /\ store[jobs[j].fileId] = "Pending"

---------------------------------------------------------------------------
(* Properties of the batch tool's queue *)

\* the results runQueue holds for the i-th file of the batch
ResultsOf(i) == SelectSeq(results, LAMBDA r : r.name = i)

\* C12: in the batch tool, when the PUT that marks the file AlreadyCopy
\* throws after the generated file has been written, the file's result is
\* still a success.
C12_PutFailureIsSuccess ==
    \A i \in DOMAIN itemLog :
        itemLog[i].threw = "put" =>
            \A k \in DOMAIN ResultsOf(i) : ResultsOf(i)[k].success

\* runQueue's Promise.all has resolved: every worker has left its loop
QueueReturned == batch # <<>> /\ \A w \in DOMAIN workers : workers[w].pc = "exit"

\* the pipeline of the i-th file ended in a throw
Threw(i) == itemLog[i].threw # "none"

OneResultPerItem ==
    /\ Len(results) = Len(batch)
    /\ \A i \in DOMAIN batch :
          /\ itemLog[i].claims = 1
          /\ Len(ResultsOf(i)) = 1
          /\ Threw(i) <=> ~ResultsOf(i)[1].success

\* C13: whatever files of the batch fail, runQueue terminates, and when it
\* has, the pipeline has run once for every file of the batch and there is
\* exactly one result per file, a failure for a file whose pipeline threw;
\* a failure stops no other file from being claimed and processed.
C13_QueueCompletes ==
    /\ [](QueueReturned => OneResultPerItem)
    /\ (mainPc = "queue") ~> QueueReturned

\* runQueue has returned for a batch of NumBatchFiles files of which the
\* first failed and the last succeeded
C13_Witness ==
    /\ QueueReturned
    /\ Len(batch) = NumBatchFiles
    /\ Threw(1)
    /\ ~ResultsOf(1)[1].success
    /\ ResultsOf(Len(batch))[1].success

\* the workers that are inside processFile
Busy == {w \in DOMAIN workers : workers[w].pc # "exit"}

ClaimedOnce ==
    /\ index <= Len(batch)
    /\ \A i \in DOMAIN batch : itemLog[i].claims = IF i <= index THEN 1 ELSE 0
    /\ \A w \in Busy : workers[w].item \in 1..index
    /\ \A v, w \in Busy : v # w => workers[v].item # workers[w].item
    /\ QueueReturned => index = Len(batch)

\* C14: with any number of workers, every file of the batch is claimed
\* exactly once, by one worker (none twice, none skipped: the files claimed
\* are those up to the cursor, and the cursor is at the end when runQueue
\* returns), and the cursor never moves back.
C14_EachItemClaimedOnce ==
    /\ [](ClaimedOnce)
    /\ [][index' >= index]_vars

\* two workers are at work on the last two files of a batch of NumBatchFiles
C14_Witness ==
    /\ concurrencyLimit = MaxConcurrency
    /\ Len(batch) = NumBatchFiles
    /\ index = Len(batch)
    /\ Cardinality(Busy) = MaxConcurrency
    /\ Len(results) = NumBatchFiles - MaxConcurrency

\* the files whose pipeline has started and has not returned
InFlightItems ==
    {i \in DOMAIN batch : itemLog[i].claims > 0 /\ Len(ResultsOf(i)) = 0}

\* C15: at every moment of runQueue, the number of files whose pipeline has
\* started and not yet finished is at most the concurrency bound.
C15_AtMostLimitInFlight == Cardinality(InFlightItems) <= concurrencyLimit

\* as many files in flight as the bound allows, after a first file has
\* finished and its worker has claimed the next
C15_Witness ==
    /\ concurrencyLimit = MaxConcurrency
    /\ Cardinality(InFlightItems) = concurrencyLimit
    /\ Len(results) > 0
    /\ index > concurrencyLimit

\* run has split the results of a batch (lines 231-232)
Reported == batch # <<>> /\ mainPc \in {"done", "fatal"}

In(r, seq) == \E k \in DOMAIN seq : seq[k] = r

\* C16: the report splits the results of the batch in two: every result is
\* either in the success list or in the failed list and never in both, the
\* two lengths add up to the number of files of the batch, and a batch of 3
\* files run by one worker that all succeed gives 3 successes, 0 failures.
C16_ReportPartitions ==
    Reported =>
        /\ \A k \in DOMAIN results :
              In(results[k], report.success) # In(results[k], report.failed)
        /\ \A k \in DOMAIN report.success : In(report.success[k], results)
        /\ \A k \in DOMAIN report.failed : In(report.failed[k], results)
        /\ Len(report.success) + Len(report.failed) = Len(batch)
        /\ (/\ Len(batch) = 3
            /\ concurrencyLimit = 1
            /\ \A k \in DOMAIN results : results[k].success)
           => Len(report.success) = 3 /\ Len(report.failed) = 0

\* the report of a batch of 3 files run by one worker that all succeeded
C16_Witness ==
    /\ Reported
    /\ concurrencyLimit = 1
    /\ Len(batch) = 3
    /\ Len(report.success) = 3
    /\ \A i \in DOMAIN batch : ~Threw(i)

---------------------------------------------------------------------------
(* Properties of the server's SSE clients *)

\* the step is an updateJob of Job j
Updates(j) == j \in DOMAIN trail /\ trail'[j] # trail[j]

\* C17: an updateJob for a Job whose fileId has no registered client writes
\* to no connection and leaves the clients map as it is, and the update is
\* applied to the Job all the same; nothing is thrown by it and processFile
\* goes on.
C17_NoSubscriberNoWrite ==
    [][\A j \in DOMAIN jobs :
          Updates(j) /\ clients[jobs[j].fileId] = 0 =>
              /\ conns' = conns
              /\ clients' = clients
              /\ jobs'[j] # jobs[j]
              /\ jobs'[j] = Last(trail'[j])
              /\ proc'[j].pc # proc[j].pc
              /\ proc'[j].threw \in {proc[j].threw, "getGemini"}]_vars

\* a Job has completed; the one client of its fileId connected before the
\* Job was created and has left since, and was written the init frame only
C17_Witness ==
    \E j \in DOMAIN jobs :
        /\ jobs[j].status = "completed"
        /\ clients[jobs[j].fileId] = 0
        /\ Len(conns) = 1
        /\ conns[1].fileId = jobs[j].fileId
        /\ conns[1].since < j
        /\ ~conns[1].open
        /\ conns[1].sent = <<InitEvent>>

\* the frames of Job j that were written to connection c
FramesOf(c, j) == SelectSeq(conns[c].sent, LAMBDA e : e.jobId = j)

\* the frames of the updates Job j has had, in their order
EventsOf(j) == [k \in 1..(Len(trail[j]) - 1) |-> ProgressEvent(trail[j][k + 1])]

\* connection c was opened for the fileId of an earlier connection b
Replaces(c, b) == b < c /\ conns[b].fileId = conns[c].fileId

\* c is the last connection opened for its fileId
Latest(c) == \A d \in DOMAIN conns : d > c => conns[d].fileId # conns[c].fileId

\* Job j was created for the fileId of connection c after c was opened
After(j, c) == jobs[j].fileId = conns[c].fileId /\ j > conns[c].since

\* C18: a fileId is mapped to at most one client, an open connection for
\* that fileId; and once a second client has subscribed for a fileId, every
\* later progress event of that fileId is written to the later client, as
\* long as it is connected, and none to the one it replaced.
C18_LaterSubscriberOnly ==
    /\ \A f \in FileIds :
          clients[f] # 0 => conns[clients[f]].open /\ conns[clients[f]].fileId = f
    /\ \A b, c \in DOMAIN conns :
          Replaces(c, b) =>
              \A j \in DOMAIN jobs :
                  After(j, c) =>
                      /\ FramesOf(b, j) = <<>>
                      /\ Latest(c) /\ conns[c].open => FramesOf(c, j) = EventsOf(j)

\* the half of C18 that holds: a frame is only ever written to the client
\* registered for the fileId, never to a connection that was replaced
C18_NeverToReplaced ==
    /\ \A f \in FileIds :
          clients[f] # 0 => conns[clients[f]].open /\ conns[clients[f]].fileId = f
    /\ \A b, c \in DOMAIN conns :
          Replaces(c, b) => \A j \in DOMAIN jobs : After(j, c) => FramesOf(b, j) = <<>>

\* connection c is the client registered for its fileId
Registered(c) == clients[conns[c].fileId] = c

\* C19: every update of a Job made through updateJob is written to the
\* client registered for the Job's fileId before the Job's next update is
\* made: in every state, a client registered since before the Job was
\* created has been written exactly one frame per update of the Job, in the
\* order of the updates, each with the status, progress, message and id the
\* Job had after that update.
C19_OneFramePerUpdateInOrder ==
    \A c \in DOMAIN conns :
        Registered(c) =>
            \A j \in DOMAIN jobs : After(j, c) => FramesOf(c, j) = EventsOf(j)

\* a client registered for the whole run of a Job that completed: it was
\* written the frames of progress 5, 10, 30, 70, 90 and 100
C19_Witness ==
    \E c \in DOMAIN conns, j \in DOMAIN jobs :
        /\ Registered(c)
        /\ After(j, c)
        /\ jobs[j].status = "completed"
        /\ Len(FramesOf(c, j)) = 6
        /\ FramesOf(c, j)[1].step = "processing"
        /\ FramesOf(c, j)[6] = ProgressEvent(jobs[j])

---------------------------------------------------------------------------
\* C20: in every state a Job has an end timestamp if and only if its status
\* is completed or failed: every value a Job has had is stamped exactly when
\* it is terminal, so the stamp is put by the update that makes it terminal.
C20_EndTimeIffTerminal ==
    \A j \in DOMAIN jobs :
        /\ jobs[j] = Last(trail[j])
        /\ \A k \in DOMAIN trail[j] :
              trail[j][k].endTime # 0 <=> trail[j][k].status \in {"completed", "failed"}

\* one Job has completed and one has failed; each was stamped by its last
\* update
C20_Witness ==
    \E j, k \in DOMAIN jobs :
        /\ jobs[j].status = "completed" /\ jobs[j].endTime # 0
        /\ jobs[k].status = "failed" /\ jobs[k].endTime # 0
        /\ trail[j][Len(trail[j]) - 1].endTime = 0
        /\ trail[k][Len(trail[k]) - 1].endTime = 0

---------------------------------------------------------------------------
(* Properties of the automation loop *)

\* the Jobs cycle c started
JobsOf(c) == {j \in DOMAIN jobs : proc[j].caller = <<"cyc", c>>}

\* the step is the return or the throw of the processFile cycle c awaits
ItemEnds(c) == cycles[c].pc = "awaiting" /\ cycles'[c].pc # "awaiting"

\* C21: neither a listing that throws nor a file that fails stops the
\* automation.  A listing that throws ends its cycle and frees the event
\* loop; when the processFile of a file returns or throws, the cycle keeps
\* its list and its place, pauses, and then turns to the next file of the
\* list; and whatever has happened to the earlier cycles, a timer that fires
\* while the event loop is free starts a new cycle, which begins by listing.
C21_FailuresDoNotStopAutomation ==
    /\ [](running = Idle /\ Len(cycles) < MaxCycles => ENABLED StartCycle)
    /\ [][\A c \in DOMAIN cycles :
            /\ cycles[c].pc = "listing" /\ cycles'[c].pc = "done" => running' = Idle
            /\ ItemEnds(c) =>
                  /\ cycles'[c] = [cycles[c] EXCEPT !.pc = "pause"]
                  /\ running' = Idle
            /\ cycles[c].pc = "pause" /\ cycles'[c].pc # "pause" =>
                  /\ cycles'[c] = [cycles[c] EXCEPT !.pc = "loop", !.idx = @ + 1]
                  /\ running' = <<"cyc", c>>]_vars
    /\ [][Len(cycles') > Len(cycles) => cycles'[Len(cycles')].pc = "listing"]_vars

\* the listing of the first cycle threw; the second cycle, started after it,
\* has seen its first file fail and has gone on to the next file
C21_Witness ==
    /\ Len(cycles) = 2
    /\ cycles[1].pc = "done"
    /\ JobsOf(1) = {}
    /\ JobsOf(2) = {1, 2}
    /\ reqs = <<>>
    /\ jobs[1].status = "failed"
    /\ jobs[2].fileId # jobs[1].fileId

\* the Jobs started by the automation that are pending or processing
AutomationInFlight ==
    {j \in DOMAIN jobs : proc[j].caller[1] = "cyc" /\ NonTerminal(j)}

\* C22: the automation processes one file at a time: at any moment at most
\* one Job started by runAutomation is pending or processing, also when a
\* cycle is still running as the next poll interval fires.
C22_OneAutomationJobAtATime == Cardinality(AutomationInFlight) <= 1

---------------------------------------------------------------------------
(* Properties of generateWithRetry *)

\* the position of key k in the pool
KeyPos(k) == CHOOSE i \in DOMAIN apiKeys : apiKeys[i] = k

\* the key one position after k, the first after the last
KeyAfter(k) == apiKeys[(KeyPos(k) % Len(apiKeys)) + 1]

\* the step ends an attempt of worker w in a failure
AttemptFails(w) == workers[w].pc = "generating" /\ workers'[w].pc = "backoff"

\* the step starts the next attempt of worker w
NextAttempt(w) == workers[w].pc = "backoff" /\ workers'[w].pc = "delay"

\* C24: every attempt of generateWithRetry takes the next key from the
\* rotation, whether the attempt before it ended in a 429, in another error
\* or in an empty response: the key of the new attempt is the one the
\* rotation was at, and when the call runs alone it is the key one position
\* after the key of the attempt before (the first after the last); and a 429
\* uses up an attempt as any other failure does.
C24_RotatesOnEveryAttempt ==
    [][\A w \in DOMAIN workers :
          /\ AttemptFails(w) =>
                /\ workers'[w].attempt = workers[w].attempt + 1
                /\ workers'[w].resp \in {"429", "empty", "throw"}
          /\ NextAttempt(w) =>
                /\ workers'[w].key = apiKeys[keyIndex + 1]
                /\ keyIndex' = (keyIndex + 1) % Len(apiKeys)
                /\ workers'[w].attempt = workers[w].attempt
                /\ concurrencyLimit = 1 => workers'[w].key = KeyAfter(workers[w].key)]_vars

\* a single worker is at its fourth attempt, after a 429 that followed other
\* failures; the keys handed out last are consecutive, past the end of the pool
C24_Witness ==
    /\ mainPc = "queue"
    /\ concurrencyLimit = 1
    /\ workers[1].pc = "backoff"
    /\ workers[1].resp = "429"
    /\ workers[1].attempt = 4
    /\ Len(keyLog) = Len(apiKeys) + 1
    /\ keyLog[Len(keyLog)] = workers[1].key
    /\ \A i \in 2..Len(keyLog) : keyLog[i] = KeyAfter(keyLog[i - 1])

\* C25: in generateWithRetry every generation call comes straight after the
\* courtesy pause of REQUEST_DELAY of its own attempt; the k-th failed
\* attempt is followed by a backoff pause of 1000 * k; and a backoff pause
\* is only ever spent before a next attempt, none after the last failed one.
C25_PausesBeforeAttempts ==
    /\ [][\A w \in DOMAIN workers :
             /\ workers'[w].pc = "generating" /\ workers[w].pc # "generating" =>
                   workers[w].pc = "delay" /\ Sleep(workers[w]) = REQUEST_DELAY
             /\ AttemptFails(w) =>
                   Sleep(workers'[w]) = 1000 * (workers[w].attempt + 1)]_vars
    /\ [](\A w \in DOMAIN workers :
             workers[w].pc = "backoff" => workers[w].attempt < MAX_RETRIES)

---------------------------------------------------------------------------
\* C26: in the server's processFile the generation is retried: a Job is
\* failed because of a generation error or an empty response only after
\* MAX_RETRIES generation calls have been made for it, and its error carries
\* the cause of the failure.
C26_ServerGenerationRetried ==
    \A j \in DOMAIN jobs :
        jobs[j].status = "failed" /\ proc[j].threw \in {"generate", "empty"} =>
            /\ proc[j].gens = MAX_RETRIES
            /\ jobs[j].error[1] = GenerationFailed
            /\ jobs[j].error[2] # ""

---------------------------------------------------------------------------
\* C27: when no valid key is configured (there is none, or only
\* placeholders), the process aborts as it starts, before it lists any file
\* and before it creates any Job: the batch tool with no valid key in its
\* pool never takes a file into its queue, and in the server no Job fails
\* for want of a key.
C27_NoCredentialAbortsAtStartup ==
    /\ program = "batch" /\ ValidKeys(apiKeys) = <<>> =>
           batch = <<>> /\ mainPc # "queue"
    /\ program = "server" => \A j \in DOMAIN jobs : proc[j].threw # "getGemini"

\* the batch tool's half of C27 alone
C27_BatchAborts ==
    program = "batch" /\ ValidKeys(apiKeys) = <<>> =>
        batch = <<>> /\ mainPc # "queue"

\* the server's half of C27 alone
C27_ServerNoPerJobFailure ==
    program = "server" => \A j \in DOMAIN jobs : proc[j].threw # "getGemini"

---------------------------------------------------------------------------
\* C28: in both pipelines the PUT that marks a file AlreadyCopy is made only
\* after the fetch, the generation and the upload (the write, in the batch
\* tool) of that run have succeeded, and at most once per run: a run that
\* has made the PUT has made one, none of its earlier calls threw, and the
\* server's run made its generation call and had passed progress 70.
C28_MarkedOnlyAfterSuccess ==
    /\ \A j \in DOMAIN proc :
          /\ proc[j].puts <= 1
          /\ proc[j].puts = 1 =>
                /\ proc[j].threw \in {"none", "reconcile"}
                /\ proc[j].gens = 1
                /\ \E k \in DOMAIN trail[j] : trail[j][k].progress = 70
          /\ store[jobs[j].fileId] = "AlreadyCopy" /\ program = "server" =>
                \E k \in DOMAIN proc : jobs[k].fileId = jobs[j].fileId /\ proc[k].puts = 1
    /\ \A i \in DOMAIN itemLog :
          /\ itemLog[i].puts <= 1
          /\ itemLog[i].puts = 1 => itemLog[i].threw \in {"none", "put"}
          /\ \A w \in DOMAIN workers :
                workers[w].pc = "putting" /\ workers[w].item = i =>
                    workers[w].resp = "text" /\ itemLog[i].puts = 1

\* a run of the server's processFile has marked its file after its upload
C28_Witness ==
    \E j \in DOMAIN proc :
        /\ proc[j].puts = 1
        /\ proc[j].pc = "returned"
        /\ proc[j].threw = "none"
        /\ store[jobs[j].fileId] = "AlreadyCopy"

\* the batch tool has marked a file, and has failed another at its generation
C28_BatchWitness ==
    \E i, k \in DOMAIN itemLog :
        /\ itemLog[i].puts = 1
        /\ store[batch[i]] = "AlreadyCopy"
        /\ itemLog[k].threw = "generate"
        /\ itemLog[k].puts = 0

---------------------------------------------------------------------------
\* C29: a client that replaced an earlier client of the same fileId stays
\* registered until its own connection closes, whatever happens to the
\* connection it replaced, and is written every progress event of the fileId
\* in the meantime.
C29_ReplacingSubscriberStays ==
    \A b, c \in DOMAIN conns :
        Replaces(c, b) /\ Latest(c) /\ conns[c].open =>
            /\ Registered(c)
            /\ \A j \in DOMAIN jobs : After(j, c) => FramesOf(c, j) = EventsOf(j)

---------------------------------------------------------------------------
\* C30: once a Job of a fileId has completed, the automation creates no
\* other Job for that fileId, also when the PUT failed and the store still
\* lists the file as Pending, and when another cycle still holds a list it
\* fetched before the Job completed: a Job the automation has just created
\* never finds a completed Job of its fileId.
C30_NoAutomationJobAfterCompleted ==
    \A j, k \in DOMAIN jobs :
        /\ j # k
        /\ jobs[j].fileId = jobs[k].fileId
        /\ proc[k].caller[1] = "cyc"
        /\ jobs[k].status = "pending"
        => jobs[j].status # "completed"


\* C23: a stop is honoured by the loop it is asked of: an activation of the
\* page's generation loop that was running when stop was pressed starts no
\* further file afterwards.  (runAutomation, the other loop the claim names,
\* reads no stop flag at all: nothing in the server sets or tests one.)
C23_NoItemStartedAfterStop ==
    \A l \in DOMAIN ui.loops : ~ui.loops[l].late

\* C31: when every awaited call returns or throws, every Job that processFile
\* created reaches completed or failed, whichever stage throws (credential
\* selection included).
C31_EveryJobEnds ==
    \A j \in 1..MaxJobs :
        (j \in DOMAIN jobs) ~>
            (j \in DOMAIN jobs /\ jobs[j].status \in {"completed", "failed"})

\* a Job failed because getGemini threw
C31_Witness ==
    \E j \in DOMAIN jobs :
        /\ proc[j].threw = "getGemini"
        /\ jobs[j].status = "failed"
        /\ \E k \in DOMAIN jobs : jobs[k].status = "completed"

\* the activations of startGeneration that have a POST in flight
Posting == {l \in DOMAIN ui.loops : ui.loops[l].pc = "awaiting"}

\* C32: at most one generation loop is running at any time: no two
\* activations of startGeneration have an item in flight together.
C32_OneLoopSubmitting ==
    Cardinality(Posting) <= 1

\* C33: the jobId of a manual trigger's error response is the id of the Job
\* that was created for that request.
C33_ErrorNamesOwnJob ==
    \A r \in DOMAIN reqs :
        reqs[r].pc = "done" /\ reqs[r].code = 500 => reqs[r].jobId = reqs[r].job
=============================================================================
